---------------------------- MODULE Spec2Model ----------------------------
(***************************************************************************)
(* TruArc disc flight engine (src/src/utils/flightPhysics.js).             *)
(*                                                                         *)
(* Numbers.  The engine computes with IEEE doubles.  Here a number is an   *)
(* integer count of thousandths (2 m is 2000, 9.81 m/s^2 is 9810, 12       *)
(* degrees is 12000), or one of the three special values NaN, PInf, NInf.  *)
(* Every arithmetic operation of the source is an F-operator below that    *)
(* follows the IEEE rules for the special values (Inf - Inf, 0 * Inf and   *)
(* 0 / 0 are NaN, x / 0 is an infinity, a comparison with NaN is false)    *)
(* and rounds toward zero.  A finite result larger than MaxFinite becomes  *)
(* an infinity.                                                            *)
(*                                                                         *)
(* Simulated time is the exception: state.t is the exact double, held as   *)
(* four 16-bit limbs counting units of 2^-59 s, and t + dt is the IEEE     *)
(* round-to-nearest-even sum, because the loop guards compare it with the  *)
(* doubles 12 and 0.3 at the very steps where rounding decides.            *)
(***************************************************************************)
EXTENDS Integers, Sequences, FiniteSets, TLC

\* ------------------------------------------------------------------------
\* Numbers

\* thousandths per unit
S == 1000
\* the special values of a double
NaN == 2147483647
PInf == 2147483646
NInf == -2147483646
\* largest finite magnitude represented
MaxFinite == 500000000
\* largest integer an intermediate result may reach
MaxInt == 2147483647

IsNaN(a) == a = NaN
IsInf(a) == a = PInf \/ a = NInf
IsFin(a) == ~IsNaN(a) /\ ~IsInf(a)
Abs(n) == IF n < 0 THEN -n ELSE n
Sgn(n) == IF n < 0 THEN -1 ELSE IF n > 0 THEN 1 ELSE 0
Min(a, b) == IF a < b THEN a ELSE b
Max(a, b) == IF a > b THEN a ELSE b

\* a finite integer result, or the infinity it overflows to
Sat(n) == IF n > MaxFinite THEN PInf ELSE IF n < -MaxFinite THEN NInf ELSE n
Signed(s, n) == IF s < 0 THEN (IF n = PInf THEN NInf ELSE -n) ELSE n

\* floor(a * b / S) for 0 <= a, 0 <= b <= MaxFinite, capped at MaxFinite + 1.
\* With a = a1 * S + a0 and b = b1 * S + b0 it is a1 * b + a0 * b1 +
\* floor(a0 * b0 / S), and no term is formed unless it fits.
MulS(a, b) ==
    IF a = 0 \/ b = 0 THEN 0
    ELSE IF a \div S > MaxFinite \div b THEN MaxFinite + 1
    ELSE Min((a \div S) * b + (a % S) * (b \div S) + ((a % S) * (b % S)) \div S,
             MaxFinite + 1)

\* floor(r * m / b) for 0 <= r < b and m = 10, 100 or 1000, one decimal digit
\* at a time; b <= MaxInt \div 10
DivDigits(r, m, b) ==
    LET d1 == (r * 10) \div b
        r1 == (r * 10) % b
        d2 == (r1 * 10) \div b
        r2 == (r1 * 10) % b
        d3 == (r2 * 10) \div b
    IN  IF m = 10 THEN d1 ELSE IF m = 100 THEN 10 * d1 + d2 ELSE 100 * d1 + 10 * d2 + d3

\* floor(a * S / b) for 0 <= a <= MaxFinite, 0 < b <= MaxFinite, capped at
\* MaxFinite + 1; exact for b <= MaxInt \div 10, and within b's eighth
\* significant digit above that
DivS(a, b) ==
    IF a \div b > MaxFinite \div S THEN MaxFinite + 1
    ELSE IF b <= MaxInt \div S THEN (a \div b) * S + ((a % b) * S) \div b
    ELSE IF b <= MaxInt \div 10 THEN (a \div b) * S + DivDigits(a % b, S, b)
    ELSE LET c == b \div 10
         IN  IF a \div c > MaxFinite \div 100 THEN MaxFinite + 1
             ELSE (a \div c) * 100 + DivDigits(a % c, 100, c)

\* a + b
FAdd(a, b) ==
    IF IsNaN(a) \/ IsNaN(b) THEN NaN
    ELSE IF IsInf(a) THEN (IF IsInf(b) /\ a # b THEN NaN ELSE a)
    ELSE IF IsInf(b) THEN b
    ELSE Sat(a + b)

\* -a
FNeg(a) == IF IsNaN(a) THEN NaN ELSE IF a = PInf THEN NInf ELSE IF a = NInf THEN PInf ELSE -a

\* a - b
FSub(a, b) == FAdd(a, FNeg(b))

\* a * b
FMul(a, b) ==
    IF IsNaN(a) \/ IsNaN(b) THEN NaN
    ELSE IF IsInf(a) \/ IsInf(b)
         THEN (IF a = 0 \/ b = 0 THEN NaN ELSE Signed(Sgn(a) * Sgn(b), PInf))
    ELSE Signed(Sgn(a) * Sgn(b), Sat(MulS(Abs(a), Abs(b))))

\* a / b
FDiv(a, b) ==
    IF IsNaN(a) \/ IsNaN(b) THEN NaN
    ELSE IF IsInf(a) THEN (IF IsInf(b) THEN NaN ELSE Signed(Sgn(a) * (IF b < 0 THEN -1 ELSE 1), PInf))
    ELSE IF IsInf(b) THEN 0
    ELSE IF b = 0 THEN (IF a = 0 THEN NaN ELSE Signed(Sgn(a), PInf))
    ELSE Signed(Sgn(a) * Sgn(b), Sat(DivS(Abs(a), Abs(b))))

\* a < b, a <= b, a > b (false when either is NaN)
FLt(a, b) == ~IsNaN(a) /\ ~IsNaN(b) /\ a < b
FLe(a, b) == ~IsNaN(a) /\ ~IsNaN(b) /\ a <= b
FGt(a, b) == ~IsNaN(a) /\ ~IsNaN(b) /\ a > b

\* Math.max(a, b), Math.min(a, b), Math.abs(a)
FMax(a, b) == IF IsNaN(a) \/ IsNaN(b) THEN NaN ELSE IF a > b THEN a ELSE b
FMin(a, b) == IF IsNaN(a) \/ IsNaN(b) THEN NaN ELSE IF a < b THEN a ELSE b
FAbs(a) == IF IsNaN(a) THEN NaN ELSE IF IsInf(a) THEN PInf ELSE Abs(a)

\* floor(sqrt(n)) for 0 < n, by Newton's iteration downward from a start
\* x above the root
RECURSIVE ISqrtFrom(_, _)
ISqrtFrom(n, x) ==
    LET y == (x + n \div x) \div 2
    IN  IF y >= x THEN x ELSE ISqrtFrom(n, y)
ISqrt(n) ==
    IF n = 0 THEN 0
    ELSE IF n < 1024 THEN ISqrtFrom(n, 32)
    ELSE IF n < 65536 THEN ISqrtFrom(n, 256)
    ELSE IF n < 4194304 THEN ISqrtFrom(n, 2048)
    ELSE IF n < 268435456 THEN ISqrtFrom(n, 16384)
    ELSE ISqrtFrom(n, 46341)

\* Math.sqrt(a): sqrt(a / S) * S = sqrt(a * S), the product formed only
\* where it fits
FSqrt(a) ==
    IF IsNaN(a) \/ a < 0 THEN NaN
    ELSE IF a = PInf THEN PInf
    ELSE IF a <= MaxInt \div S THEN ISqrt(a * S)
    ELSE IF a <= MaxInt \div 10 THEN 10 * ISqrt(a * 10)
    ELSE 100 * ISqrt(a \div 10)

\* Math.sqrt(a * a + b * b + c * c). The squares of thousandths are summed
\* exactly while the sum fits, so that a speed of a few millimetres per
\* second keeps a root above 0 as it does in the source; beyond that the
\* products are formed one by one.
NormExactMax == 26754
Norm(a, b, c) ==
    IF IsNaN(a) \/ IsNaN(b) \/ IsNaN(c) THEN NaN
    ELSE IF IsInf(a) \/ IsInf(b) \/ IsInf(c) THEN PInf
    ELSE IF Abs(a) <= NormExactMax /\ Abs(b) <= NormExactMax /\ Abs(c) <= NormExactMax
         THEN ISqrt(a * a + b * b + c * c)
    ELSE FSqrt(FAdd(FAdd(FMul(a, a), FMul(b, b)), FMul(c, c)))

\* ------------------------------------------------------------------------
\* Math.sin, Math.cos, Math.atan2, with angles in degrees (the source
\* multiplies by DEG_TO_RAD or RAD_TO_DEG at each use). Rational
\* approximations, exact at the multiples of 90 degrees (atan2: of 45).

\* x reduced to [0, 360) degrees
Mod360(x) == x % (360 * S)

\* sin of y degrees, 0 <= y <= 180: 4y(180-y) / (40500 - y(180-y))
SinHalfTurn(y) ==
    LET p == MulS(y, 180 * S - y)
    IN  DivS(4 * p, 40500 * S - p)

\* Math.sin(x * DEG_TO_RAD)
SinDeg(x) ==
    IF ~IsFin(x) THEN NaN
    ELSE LET y == Mod360(x)
         IN  IF y <= 180 * S THEN SinHalfTurn(y) ELSE -SinHalfTurn(y - 180 * S)

\* Math.cos(x * DEG_TO_RAD)
CosDeg(x) ==
    IF ~IsFin(x) THEN NaN
    ELSE LET y == Mod360(Mod360(x) + 90 * S)
         IN  IF y <= 180 * S THEN SinHalfTurn(y) ELSE -SinHalfTurn(y - 180 * S)

\* atan of a ratio z in [0, 1], in degrees: z * (45 + 15.64 * (1 - z))
AtanUnit(z) == FMul(z, 45 * S + FMul(15640, S - z))

\* Math.atan2(y, x) * RAD_TO_DEG
Atan2Deg(y, x) ==
    IF IsNaN(y) \/ IsNaN(x) THEN NaN
    ELSE LET a == IF IsInf(y) THEN (IF IsInf(x) THEN 1 ELSE 2) ELSE IF IsInf(x) THEN 0 ELSE Abs(y)
             b == IF IsInf(x) THEN (IF IsInf(y) THEN 1 ELSE 2) ELSE IF IsInf(y) THEN 0 ELSE Abs(x)
             ang == IF a = 0 THEN 0
                    ELSE IF a <= b THEN AtanUnit(FDiv(a, b))
                    ELSE 90 * S - AtanUnit(FDiv(b, a))
             half == IF x < 0 THEN 180 * S - ang ELSE ang
         IN  IF y < 0 THEN -half ELSE half

\* ------------------------------------------------------------------------
\* Simulated time: the double state.t, exactly. A time is <<l0, l1, l2, l3>>,
\* the 16-bit limbs (least significant first) of its count of 2^-59 s.

Limb == 65536

\* the doubles 0.01 (dt), 12 (maxTime), 0.3 (the landing guard) and 0
DoubleDt == <<5243, 18350, 31457, 20>>
DoubleMaxTime == <<0, 0, 0, 24576>>
DoubleLandGuard == <<26208, 26214, 26214, 614>>
DoubleZero == <<0, 0, 0, 0>>

\* number of bits of n >= 0
RECURSIVE BitLen(_)
BitLen(n) == IF n = 0 THEN 0 ELSE 1 + BitLen(n \div 2)

RECURSIVE Pow2(_)
Pow2(n) == IF n = 0 THEN 1 ELSE 2 * Pow2(n - 1)

\* limbs with carries propagated upward
Carry(u) ==
    LET c1 == u[1] \div Limb
        v2 == u[2] + c1
        c2 == v2 \div Limb
        v3 == u[3] + c2
        c3 == v3 \div Limb
    IN  <<u[1] % Limb, v2 % Limb, v3 % Limb, u[4] + c3>>

\* the double nearest to the exact value u (ties to even): a double holds 53
\* significant bits, so the low bits beyond them are rounded away
RoundDouble(u) ==
    LET len == IF u[4] > 0 THEN 48 + BitLen(u[4]) ELSE 48
        drop == IF len > 53 THEN len - 53 ELSE 0
        p == Pow2(drop)
        r == u[1] % p
        keep == u[1] - r
        up == drop > 0 /\ (2 * r > p \/ (2 * r = p /\ (u[1] \div p) % 2 = 1))
    IN  Carry(<<keep + (IF up THEN p ELSE 0), u[2], u[3], u[4]>>)

\* a + b in double arithmetic
DAdd(a, b) == RoundDouble(Carry(<<a[1] + b[1], a[2] + b[2], a[3] + b[3], a[4] + b[4]>>))

\* a < b, a > b
DLt(a, b) ==
    \/ a[4] < b[4]
    \/ a[4] = b[4] /\ a[3] < b[3]
    \/ a[4] = b[4] /\ a[3] = b[3] /\ a[2] < b[2]
    \/ a[4] = b[4] /\ a[3] = b[3] /\ a[2] = b[2] /\ a[1] < b[1]
DGt(a, b) == DLt(b, a)

\* ------------------------------------------------------------------------
\* Constants of the engine

AIR_DENSITY == 1225
DISC_MASS == 175
DISC_DIAMETER == 211
\* Math.PI * (DISC_DIAMETER / 2) ** 2 = 0.034967 m^2
DISC_AREA == 35
GRAVITY == 9810
\* in whole metres per degree
METERS_PER_DEG_LAT == 111320

\* x || 0 for a number x: NaN and 0 give 0
OrZero(x) == IF IsNaN(x) THEN 0 ELSE x

\* ------------------------------------------------------------------------
\* Flight number coefficients

\* a faulty liftCoefficient: without the clamp
liftCoefficientUnclamped(disc, angleOfAttack) ==
    FMul(FAdd(FAdd(150, FMul(disc.glide, 35)), FMul(angleOfAttack, 80)),
         FAdd(1 * S, FMul(FSub(disc.speed, 7 * S), 20)))

liftCoefficient(disc, angleOfAttack) ==
    LET baseCl == FAdd(150, FMul(disc.glide, 35))
        aoaEffect == FMul(angleOfAttack, 80)
        speedFactor == FAdd(1 * S, FMul(FSub(disc.speed, 7 * S), 20))
    IN  FMax(0, FMul(FAdd(baseCl, aoaEffect), speedFactor))

dragCoefficient(disc, angleOfAttack) ==
    LET baseCd == FSub(80, FMul(disc.speed, 3))
        aoaDrag == FMul(FAbs(angleOfAttack), 40)
    IN  FMax(20, FAdd(baseCd, aoaDrag))

speedToVelocity(speedRating, powerPercent) ==
    LET maxV == FAdd(15 * S, FMul(speedRating, 1600))
    IN  FMul(maxV, FDiv(powerPercent, 100 * S))

\* the default of speedToVelocity's second parameter
DefaultPowerPercent == 80 * S

\* ------------------------------------------------------------------------
\* The integrator

createState(x, y, z, vx, vy, vz, roll, spin, t) ==
    [x |-> x, y |-> y, z |-> z, vx |-> vx, vy |-> vy, vz |-> vz,
     roll |-> roll, spin |-> spin, t |-> t]

FreeFall == [dvx |-> 0, dvy |-> -GRAVITY, dvz |-> 0, droll |-> 0, dspin |-> 0]

\* derivatives is written as a chain of operators, each taking the locals
\* computed so far as parameters and computing the next ones.

\* the forces on the disc and the returned accelerations, from
\* "Aerodynamic forces" on
\* a faulty spin rate: the sign is lost
dspinGrowing(spin) == FMul(spin, 150)

\* spin decay: dspin = -spin * 0.15
dspin(spin) == FMul(FNeg(spin), 150)

derivativesForces(state, disc, vrx, vry, vrz, relSpeed, effectiveAoA, speedFraction, heading) ==
    LET roll == state.roll
        spin == state.spin
        q == FMul(FMul(FMul(FMul(500, AIR_DENSITY), relSpeed), relSpeed), DISC_AREA)
        cl == liftCoefficient(disc, effectiveAoA)
        cd == dragCoefficient(disc, effectiveAoA)
        liftForce == FMul(q, cl)
        dragForce == FMul(q, cd)
        liftY == FMul(FDiv(liftForce, DISC_MASS), CosDeg(roll))
        liftLateral == FMul(FMul(FDiv(liftForce, DISC_MASS), SinDeg(roll)), 300)
        dragAx == FMul(FNeg(FDiv(dragForce, DISC_MASS)), FDiv(vrx, relSpeed))
        dragAy == FMul(FNeg(FDiv(dragForce, DISC_MASS)), FDiv(vry, relSpeed))
        dragAz == FMul(FNeg(FDiv(dragForce, DISC_MASS)), FDiv(vrz, relSpeed))
        turnEffect == FMul(FMul(FMul(disc.turn, 2500), speedFraction), FDiv(spin, 1000 * S))
        fadeFraction == FMax(0, FSub(1 * S, speedFraction))
        fadeEffect == FMul(FMul(FMul(disc.fade, 3 * S), fadeFraction),
                           FMax(300, FDiv(spin, 1000 * S)))
        lateralForce == FAdd(turnEffect, fadeEffect)
        latX == FMul(lateralForce, CosDeg(heading))
        latZ == FMul(FNeg(lateralForce), SinDeg(heading))
        rollFromTurn == FMul(FMul(disc.turn, 1500), speedFraction)
        rollFromFade == FMul(FMul(FNeg(disc.fade), 2 * S), fadeFraction)
        rollDamping == FMul(FNeg(roll), 500)
        droll == FAdd(FAdd(rollFromTurn, rollFromFade), rollDamping)
    IN  [dvx |-> FAdd(FAdd(dragAx, liftLateral), latX),
         dvy |-> FSub(FAdd(dragAy, liftY), GRAVITY),
         dvz |-> FAdd(dragAz, latZ),
         droll |-> droll,
         dspin |-> dspin(spin)]

\* a faulty derivatives: without the test of relSpeed
derivativesSpeedsUnguarded(state, disc, vrx, vry, vrz, relSpeed, horizontalSpeed) ==
    derivativesForces(state, disc, vrx, vry, vrz, relSpeed,
             FAdd(IF FGt(horizontalSpeed, 0) THEN Atan2Deg(vry, horizontalSpeed) ELSE 0,
                  FMul(state.roll, 300)),
             FDiv(relSpeed, speedToVelocity(disc.speed, DefaultPowerPercent)),
             Atan2Deg(vrx, vrz))

\* the free-fall return, and the angle of attack, the speed fraction and the
\* heading. Math.atan2(vrx, vrz) is kept in radians by the source and handed
\* to Math.cos and Math.sin as it is; Atan2Deg, CosDeg and SinDeg keep that
\* angle in degrees throughout.
derivativesSpeeds(state, disc, vrx, vry, vrz, relSpeed, horizontalSpeed) ==
    IF FLt(relSpeed, 500) THEN FreeFall
    ELSE derivativesForces(state, disc, vrx, vry, vrz, relSpeed,
             FAdd(IF FGt(horizontalSpeed, 0) THEN Atan2Deg(vry, horizontalSpeed) ELSE 0,
                  FMul(state.roll, 300)),
             FDiv(relSpeed, speedToVelocity(disc.speed, DefaultPowerPercent)),
             Atan2Deg(vrx, vrz))

\* relSpeed and horizontalSpeed
derivativesRelative(state, disc, vrx, vry, vrz) ==
    derivativesSpeeds(state, disc, vrx, vry, vrz,
        Norm(vrx, vry, vrz), Norm(vrx, 0, vrz))

\* the relative velocity vrx, vry, vrz: the wind is horizontal only
RelativeVelocity(state, wind) ==
    [vrx |-> FSub(state.vx, OrZero(wind.vx)), vry |-> state.vy,
     vrz |-> FSub(state.vz, OrZero(wind.vz))]

derivatives(state, disc, wind) ==
    derivativesRelative(state, disc, RelativeVelocity(state, wind).vrx,
        RelativeVelocity(state, wind).vry, RelativeVelocity(state, wind).vrz)

\* the locals speedFraction and fadeFraction of derivatives(state, disc, wind)
speedFraction(state, disc, wind) ==
    FDiv(Norm(FSub(state.vx, OrZero(wind.vx)), state.vy, FSub(state.vz, OrZero(wind.vz))),
         speedToVelocity(disc.speed, DefaultPowerPercent))

fadeFraction(state, disc, wind) == FMax(0, FSub(1 * S, speedFraction(state, disc, wind)))

\* the stage states s2 and s3: s with velocity, roll and spin advanced by
\* k * dt / 2
StageHalf(s, k, dt) ==
    [s EXCEPT !.vx = FAdd(s.vx, FDiv(FMul(k.dvx, dt), 2 * S)),
              !.vy = FAdd(s.vy, FDiv(FMul(k.dvy, dt), 2 * S)),
              !.vz = FAdd(s.vz, FDiv(FMul(k.dvz, dt), 2 * S)),
              !.roll = FAdd(s.roll, FDiv(FMul(k.droll, dt), 2 * S)),
              !.spin = FAdd(s.spin, FDiv(FMul(k.dspin, dt), 2 * S))]

\* the stage state s4: advanced by k * dt
StageFull(s, k, dt) ==
    [s EXCEPT !.vx = FAdd(s.vx, FMul(k.dvx, dt)),
              !.vy = FAdd(s.vy, FMul(k.dvy, dt)),
              !.vz = FAdd(s.vz, FMul(k.dvz, dt)),
              !.roll = FAdd(s.roll, FMul(k.droll, dt)),
              !.spin = FAdd(s.spin, FMul(k.dspin, dt))]

\* (k1 + 2 * k2 + 2 * k3 + k4) * dt / 6
Weighted(a, b, c, d, dt) ==
    FDiv(FMul(FAdd(FAdd(FAdd(a, FMul(2 * S, b)), FMul(2 * S, c)), d), dt), 6 * S)

\* rk4Step is a chain of operators like derivatives. dt is the number 0.01
\* twice: dt.m in thousandths, dt.d the double.

\* a faulty return: the position is advanced with the new velocity
rk4ResultNewVelocity(s, k1, k2, k3, k4, dt) ==
    createState(
        FAdd(s.x, FMul(FAdd(s.vx, Weighted(k1.dvx, k2.dvx, k3.dvx, k4.dvx, dt.m)), dt.m)),
        FAdd(s.y, FMul(FAdd(s.vy, Weighted(k1.dvy, k2.dvy, k3.dvy, k4.dvy, dt.m)), dt.m)),
        FAdd(s.z, FMul(FAdd(s.vz, Weighted(k1.dvz, k2.dvz, k3.dvz, k4.dvz, dt.m)), dt.m)),
        FAdd(s.vx, Weighted(k1.dvx, k2.dvx, k3.dvx, k4.dvx, dt.m)),
        FAdd(s.vy, Weighted(k1.dvy, k2.dvy, k3.dvy, k4.dvy, dt.m)),
        FAdd(s.vz, Weighted(k1.dvz, k2.dvz, k3.dvz, k4.dvz, dt.m)),
        FAdd(s.roll, Weighted(k1.droll, k2.droll, k3.droll, k4.droll, dt.m)),
        FAdd(s.spin, Weighted(k1.dspin, k2.dspin, k3.dspin, k4.dspin, dt.m)),
        DAdd(s.t, dt.d))

\* the returned state
rk4Result(s, k1, k2, k3, k4, dt) ==
    createState(
        FAdd(s.x, FMul(s.vx, dt.m)),
        FAdd(s.y, FMul(s.vy, dt.m)),
        FAdd(s.z, FMul(s.vz, dt.m)),
        FAdd(s.vx, Weighted(k1.dvx, k2.dvx, k3.dvx, k4.dvx, dt.m)),
        FAdd(s.vy, Weighted(k1.dvy, k2.dvy, k3.dvy, k4.dvy, dt.m)),
        FAdd(s.vz, Weighted(k1.dvz, k2.dvz, k3.dvz, k4.dvz, dt.m)),
        FAdd(s.roll, Weighted(k1.droll, k2.droll, k3.droll, k4.droll, dt.m)),
        FAdd(s.spin, Weighted(k1.dspin, k2.dspin, k3.dspin, k4.dspin, dt.m)),
        DAdd(s.t, dt.d))

\* s4 and k4
rk4Stage4(s, disc, wind, dt, k1, k2, k3) ==
    rk4Result(s, k1, k2, k3, derivatives(StageFull(s, k3, dt.m), disc, wind), dt)

\* s3 and k3
rk4Stage3(s, disc, wind, dt, k1, k2) ==
    rk4Stage4(s, disc, wind, dt, k1, k2, derivatives(StageHalf(s, k2, dt.m), disc, wind))

\* s2 and k2
rk4Stage2(s, disc, wind, dt, k1) ==
    rk4Stage3(s, disc, wind, dt, k1, derivatives(StageHalf(s, k1, dt.m), disc, wind))

\* k1
rk4Step(state, disc, wind, dt) ==
    rk4Stage2(state, disc, wind, dt, derivatives(state, disc, wind))

\* the state the next stage is evaluated at, the slopes ks having been
\* computed: s, s2, s3, s4
StageState(s, ks, dt) ==
    CASE Len(ks) = 0 -> s
      [] Len(ks) \in {1, 2} -> StageHalf(s, ks[Len(ks)], dt.m)
      [] Len(ks) = 3 -> StageFull(s, ks[3], dt.m)

\* k1, k2, k3, k4, one after the other
RECURSIVE rk4Slopes(_, _, _, _, _)
rk4Slopes(s, disc, wind, dt, ks) ==
    IF Len(ks) = 4 THEN ks
    ELSE rk4Slopes(s, disc, wind, dt,
                   Append(ks, derivatives(StageState(s, ks, dt), disc, wind)))

\* ------------------------------------------------------------------------
\* trajectoryToWGS84. Longitudes and latitudes are held in millionths of a
\* degree, altitudes in thousandths of a metre.

\* an angle in millionths of a degree, in thousandths
MilliDeg(x) == IF IsFin(x) THEN x \div S ELSE x

\* metres per degree of longitude at latitude lat, in whole metres
metersPerDegLng(lat) == FMul(METERS_PER_DEG_LAT, CosDeg(MilliDeg(lat)))

\* meters / metersPerDeg, in millionths of a degree
Degrees(meters, metersPerDeg) == FDiv(meters, metersPerDeg)

\* the point p rotated by the bearing
Rotate(p, bearingDeg) ==
    [rx |-> FSub(FMul(p.x, CosDeg(bearingDeg)), FMul(p.z, SinDeg(bearingDeg))),
     rz |-> FAdd(FMul(p.x, SinDeg(bearingDeg)), FMul(p.z, CosDeg(bearingDeg)))]

\* a faulty callback: the altitude leaves out the origin's elevation
ProjectPointSeaLevel(p, r, origin, mPerDegLng) ==
    [lng |-> FAdd(origin.lng, Degrees(r.rx, mPerDegLng)),
     lat |-> FAdd(origin.lat, Degrees(r.rz, METERS_PER_DEG_LAT)),
     altitude |-> p.y]

\* the callback of points.map, r being the rotated point
ProjectPoint(p, r, origin, mPerDegLng) ==
    [lng |-> FAdd(origin.lng, Degrees(r.rx, mPerDegLng)),
     lat |-> FAdd(origin.lat, Degrees(r.rz, METERS_PER_DEG_LAT)),
     altitude |-> FAdd(OrZero(origin.elevation), p.y)]

trajectoryToWGS84(points, origin, bearingDeg) ==
    [i \in 1 .. Len(points) |->
        ProjectPoint(points[i], Rotate(points[i], bearingDeg), origin,
                     metersPerDegLng(origin.lat))]

\* ------------------------------------------------------------------------
\* measure3DDistance, between two points [lng, lat, elevation]; a point
\* without elevation carries NaN, which || treats as undefined

\* feet per metre, 3.28084
FeetPerMeter == 3281

\* a faulty dz: the elevation of a is used as it is
ElevChangeRaw(a, b) == FSub(OrZero(b.elevation), a.elevation)

\* dz
ElevChange(a, b) == FSub(OrZero(b.elevation), OrZero(a.elevation))

\* the returned object, from dx, dy and dz
Measurement(dx, dy, dz) ==
    [distanceM |-> Norm(dx, dy, dz),
     distanceFt |-> FMul(Norm(dx, dy, dz), FeetPerMeter),
     elevChangeM |-> dz,
     elevChangeFt |-> FMul(dz, FeetPerMeter),
     horizontalM |-> Norm(dx, dy, 0),
     horizontalFt |-> FMul(Norm(dx, dy, 0), FeetPerMeter),
     bearingDeg |-> Atan2Deg(dx, dy)]

measure3DDistance(a, b) ==
    Measurement(FMul(FSub(b.lng, a.lng), metersPerDegLng(FDiv(FAdd(a.lat, b.lat), 2 * S))),
                FMul(FSub(b.lat, a.lat), METERS_PER_DEG_LAT),
                ElevChange(a, b))

\* ------------------------------------------------------------------------
\* smoothBezierCurve

\* Math.floor
Floor(x) == IF IsFin(x) THEN (x \div S) * S ELSE x

\* rawPoints[i] is an element: i is one of the indices 0 .. length - 1
Defined(rawPoints, i) ==
    IsFin(i) /\ i % S = 0 /\ (i \div S) \in 0 .. Len(rawPoints) - 1

\* the element rawPoints[i] of the source, whose indices start at 0
At(rawPoints, i) == rawPoints[(i \div S) + 1]

\* faulty indices: not clamped at the end of the sequence
CurveIndicesUnclamped(rawPoints, segments, idx) ==
    [i0 |-> FSub(Floor(idx), 1 * S),
     i1 |-> Floor(idx),
     i2 |-> FAdd(Floor(idx), 1 * S),
     i3 |-> FAdd(Floor(idx), 2 * S),
     frac |-> FSub(idx, Floor(idx))]

\* the indices i0, i1, i2, i3 and frac of iteration i
CurveIndices(rawPoints, segments, idx) ==
    [i0 |-> FMax(0, FSub(Floor(idx), 1 * S)),
     i1 |-> Floor(idx),
     i2 |-> FMin((Len(rawPoints) - 1) * S, FAdd(Floor(idx), 1 * S)),
     i3 |-> FMin((Len(rawPoints) - 1) * S,
                 FAdd(FMin((Len(rawPoints) - 1) * S, FAdd(Floor(idx), 1 * S)), 1 * S)),
     frac |-> FSub(idx, Floor(idx))]

\* idx of iteration i: t * (rawPoints.length - 1) with t = i / (segments - 1)
CurveIdx(rawPoints, segments, i) ==
    FMul(FDiv(i * S, (segments - 1) * S), (Len(rawPoints) - 1) * S)

\* one coordinate of the Catmull-Rom interpolation
CatmullRom(p0, p1, p2, p3, tt, tt2, tt3) ==
    FMul(500,
         FAdd(FAdd(FAdd(FMul(2 * S, p1),
                        FMul(FAdd(FNeg(p0), p2), tt)),
                   FMul(FSub(FAdd(FSub(FMul(2 * S, p0), FMul(5 * S, p1)), FMul(4 * S, p2)), p3),
                        tt2)),
              FMul(FAdd(FSub(FAdd(FNeg(p0), FMul(3 * S, p1)), FMul(3 * S, p2)), p3), tt3)))

\* the point pushed by an iteration whose four elements are p0, p1, p2, p3
CurvePoint(p0, p1, p2, p3, tt) ==
    [x |-> CatmullRom(p0.x, p1.x, p2.x, p3.x, tt, FMul(tt, tt), FMul(FMul(tt, tt), tt)),
     y |-> CatmullRom(p0.y, p1.y, p2.y, p3.y, tt, FMul(tt, tt), FMul(FMul(tt, tt), tt)),
     z |-> CatmullRom(p0.z, p1.z, p2.z, p3.z, tt, FMul(tt, tt), FMul(FMul(tt, tt), tt))]

\* iteration i reads a property of undefined: a TypeError
IterationThrows(rawPoints, k) ==
    ~(Defined(rawPoints, k.i0) /\ Defined(rawPoints, k.i1)
      /\ Defined(rawPoints, k.i2) /\ Defined(rawPoints, k.i3))

\* the point pushed by the iteration with indices k
IterationPoint(rawPoints, k) ==
    CurvePoint(At(rawPoints, k.i0), At(rawPoints, k.i1), At(rawPoints, k.i2),
               At(rawPoints, k.i3), k.frac)

\* what a call does: it returns an array or throws
Returned(value) == [status |-> "returned", value |-> value]
Threw == [status |-> "threw", value |-> <<>>]

smoothBezierCurve(rawPoints, segments) ==
    IF Len(rawPoints) < 2 THEN Returned(rawPoints)
    ELSE IF \E i \in 0 .. segments - 1 :
                IterationThrows(rawPoints,
                    CurveIndices(rawPoints, segments, CurveIdx(rawPoints, segments, i)))
         THEN Threw
    ELSE Returned([n \in 1 .. segments |->
             IterationPoint(rawPoints,
                 CurveIndices(rawPoints, segments, CurveIdx(rawPoints, segments, n - 1)))])

\* ------------------------------------------------------------------------
\* simulateDiscFlight, one action per loop iteration

VARIABLES
    disc,          \* argument: [speed, glide, turn, fade]
    throwParams,   \* argument: [power, aimAngle, releaseAngle, noseAngle]
    wind,          \* argument: [speed, direction]
    getGroundElev, \* argument: the name of a ground function, "null" for none
    windVec,       \* [vx, vz]
    state,         \* the state vector
    points,        \* the retained points, points[1] being the source's points[0]
    maxHeight,
    landingIndex,  \* index into points counted from 0, -1 while unset
    stepCount,
    pc,            \* "idle", "loop", "landed" (after the break), "done", "threw"
    result         \* the returned object, NoResult before the return

simVars == <<disc, throwParams, wind, getGroundElev, windVec, state, points,
             maxHeight, landingIndex, stepCount, pc, result>>

dt == [m |-> 10, d |-> DoubleDt]
maxTime == DoubleMaxTime
sampleEvery == 3

\* The ground functions a caller may pass: none (a flat plane at 0), ground
\* far below any flight, a plateau 3 m above the origin, a slope rising
\* 1 m per 2 m of z from 1 m below the origin at z = 0, and one that
\* answers NaN.
GroundFns == {"null", "deep", "plateau", "slope", "nan"}

Ground(fn, x, z) ==
    CASE fn = "null" -> 0
      [] fn = "deep" -> -1000 * S
      [] fn = "plateau" -> 3 * S
      [] fn = "slope" -> FSub(FMul(z, 500), 1 * S)
      [] fn = "nan" -> NaN

\* a faulty Point: the height is dropped
PointFlat(s) == [x |-> s.x, y |-> 0, z |-> s.z]

Point(s) == [x |-> s.x, y |-> s.y, z |-> s.z]

NoResult == [points |-> <<>>, landingIndex |-> -1, maxHeight |-> 0, totalDistance |-> 0]

\* faulty locals: maxHeight declared outside the function outlives a call
LoopLocalsStale(s0) ==
    /\ points' = <<[x |-> s0.x, y |-> s0.y, z |-> s0.z]>>
    /\ maxHeight' = FMax(maxHeight, s0.y)
    /\ landingIndex' = -1
    /\ stepCount' = 0

\* points, maxHeight, landingIndex and stepCount before the loop
LoopLocals(s0) ==
    /\ points' = <<Point(s0)>>
    /\ maxHeight' = s0.y
    /\ landingIndex' = -1
    /\ stepCount' = 0

\* a faulty wind vector: the direction the wind blows to
WindVectorTo(w) ==
    [vx |-> FMul(w.speed, SinDeg(w.direction)), vz |-> FMul(w.speed, CosDeg(w.direction))]

\* windVec, of a wind blowing from w.direction
WindVector(w) ==
    [vx |-> FMul(FNeg(w.speed), SinDeg(w.direction)),
     vz |-> FMul(FNeg(w.speed), CosDeg(w.direction))]

\* the release state and the locals before the loop
SimInit(d, tp, w, g) ==
    LET v0 == speedToVelocity(d.speed, tp.power)
        vHorizontal == FMul(v0, CosDeg(tp.noseAngle))
        vx == FMul(vHorizontal, SinDeg(tp.aimAngle))
        vy == FMul(v0, SinDeg(tp.noseAngle))
        vz == FMul(vHorizontal, CosDeg(tp.aimAngle))
        initialSpin == FAdd(800 * S, FMul(d.speed, 60 * S))
        s0 == createState(0, 2 * S, 0, vx, vy, vz, tp.releaseAngle, initialSpin, DoubleZero)
    IN  /\ disc' = d
        /\ throwParams' = tp
        /\ wind' = w
        /\ getGroundElev' = g
        /\ windVec' = WindVector(w)
        /\ state' = s0
        /\ LoopLocals(s0)
        /\ pc' = "loop"
        /\ result' = NoResult

\* the interpolation fraction of the landing branch
t_frac(prev, s, groundY) == FDiv(FSub(groundY, prev.y), FSub(s.y, prev.y))

\* a faulty landing point: the state itself, not interpolated to the ground
LandingPointRaw(prev, s, groundY) == [x |-> s.x, y |-> s.y, z |-> s.z]

\* the interpolated landing point
LandingPoint(prev, s, groundY) ==
    LET landX == FAdd(prev.x, FMul(FSub(s.x, prev.x), t_frac(prev, s, groundY)))
        landZ == FAdd(prev.z, FMul(FSub(s.z, prev.z), t_frac(prev, s, groundY)))
    IN  [x |-> landX, y |-> groundY, z |-> landZ]

\* a faulty index: taken before the landing point is pushed
LandedIndexBeforePush(pts) == Len(pts) - 2

\* landingIndex = points.length - 1, after the push of the landing point
LandedIndex(pts) == Len(pts) - 1

\* a faulty landing test: without the guard on the elapsed time
LandsAnyTime(s, groundY) == FLe(s.y, groundY)

\* the landing test of the loop body
Lands(s, groundY) == FLe(s.y, groundY) /\ DGt(s.t, DoubleLandGuard)

\* one iteration of the while loop
Step ==
    /\ pc = "loop"
    /\ DLt(state.t, maxTime)
    /\ state' = rk4Step(state, disc, windVec, dt)
    /\ stepCount' = stepCount + 1
    /\ LET groundY == Ground(getGroundElev, state'.x, state'.z)
       IN  IF Lands(state', groundY)
           THEN /\ points' = Append(points, LandingPoint(points[Len(points)], state', groundY))
                /\ landingIndex' = LandedIndex(points')
                /\ pc' = "landed"
                /\ UNCHANGED maxHeight
           ELSE /\ IF stepCount' % sampleEvery = 0
                   THEN /\ points' = Append(points, Point(state'))
                        /\ maxHeight' = FMax(maxHeight, state'.y)
                   ELSE UNCHANGED <<points, maxHeight>>
                /\ UNCHANGED <<landingIndex, pc>>
    /\ UNCHANGED <<disc, throwParams, wind, getGroundElev, windVec, result>>

\* a faulty default: one past the last index
DefaultLandingIndexPastEnd(li, pts) == IF li < 0 THEN Len(pts) ELSE li

\* if (landingIndex < 0) landingIndex = points.length - 1
DefaultLandingIndex(li, pts) == IF li < 0 THEN Len(pts) - 1 ELSE li

\* after the loop: the default landing index, the distance, the return
Finish ==
    /\ \/ pc = "landed"
       \/ pc = "loop" /\ ~DLt(state.t, maxTime)
    /\ LET li == DefaultLandingIndex(landingIndex, points)
       IN  /\ landingIndex' = li
           /\ IF li + 1 \in DOMAIN points
              THEN LET landing == points[li + 1]
                       totalDistance == FSqrt(FAdd(FMul(landing.x, landing.x),
                                                   FMul(landing.z, landing.z)))
                   IN  /\ result' = [points |-> points, landingIndex |-> li,
                                     maxHeight |-> maxHeight,
                                     totalDistance |-> totalDistance]
                       /\ pc' = "done"
              ELSE \* landing is undefined: reading landing.x throws
                   /\ result' = NoResult
                   /\ pc' = "threw"
    /\ UNCHANGED <<disc, throwParams, wind, getGroundElev, windVec, state, points,
                   maxHeight, stepCount>>

\* nothing is running: no module-level state exists between calls
Idle ==
    /\ disc = [speed |-> 0, glide |-> 0, turn |-> 0, fade |-> 0]
    /\ throwParams = [power |-> 0, aimAngle |-> 0, releaseAngle |-> 0, noseAngle |-> 0]
    /\ wind = [speed |-> 0, direction |-> 0]
    /\ getGroundElev = "null"
    /\ windVec = [vx |-> 0, vz |-> 0]
    /\ state = createState(0, 0, 0, 0, 0, 0, 0, 0, DoubleZero)
    /\ points = <<>>
    /\ maxHeight = 0
    /\ landingIndex = -1
    /\ stepCount = 0
    /\ pc = "idle"
    /\ result = NoResult

\* ------------------------------------------------------------------------
\* The callers

VARIABLES
    returned,      \* history: <<arguments, result>> of each call that returned, in order
    localPoints,   \* trajectoryToWGS84: argument points
    origin,        \* argument: [lng, lat, elevation]
    bearingDeg,    \* argument
    wgs84,         \* the returned array
    geoPc,         \* "idle", "ready" (called), "returned"
    rawPoints,     \* smoothBezierCurve: argument
    segments,      \* argument
    curve,         \* what the call did: Returned(array) or Threw
    curvePc,       \* "idle", "ready" (called), "done"
    measureA,      \* measure3DDistance: the two points measured
    measureB,
    forward,       \* what measure3DDistance(measureA, measureB) returned
    backward,      \* what measure3DDistance(measureB, measureA) returned
    measurePc,     \* "idle", "ready", "forward", "both"
    parked,        \* a second activation of simulateDiscFlight, suspended: its locals
    given,         \* the object last handed to rk4Step, as the call left it
    turn,          \* which of the two activations is running: 1 or 2
    selectedDisc,  \* MapCanvas props: <<>> (none) or <<disc>>
    throwSettings, \* <<>> (none) or <<settings>>
    markers,       \* MapCanvas: the markers on the map, [label, lng, lat]
    landingZone,   \* the centre of the landing zone drawn: <<>> or <<[lng, lat]>>
    flightData,    \* what onFlightComplete was last called with: <<>> or <<report>>
    handler,       \* handleThrowClick: "idle", "simulating", "reported", "threw"
    rk,            \* one call of rk4Step: its arguments, k1..k4 and the state returned
    coef,          \* one call of liftCoefficient and dragCoefficient
    mode,          \* App: "navigate", "measure", "throw" or "calibrate"
    measurement,   \* App: <<>> for null, or the measurement in a one-element sequence
    searchOpen,    \* App
    teePoint       \* MapCanvas: teePointRef.current, <<>> for null

geoVars == <<localPoints, origin, bearingDeg, wgs84, geoPc>>
curveVars == <<rawPoints, segments, curve, curvePc>>
measureVars == <<measureA, measureB, forward, backward, measurePc>>
twoVars == <<parked, given, turn>>
toolVars == <<geoVars, curveVars, measureVars>>
appVars == <<selectedDisc, throwSettings, markers, landingZone, flightData, handler>>
sideVars == <<rk, coef>>
uiVars == <<mode, measurement, searchOpen, teePoint>>
libVars == <<toolVars, twoVars, appVars, sideVars, uiVars>>
vars == <<simVars, returned, libVars>>

\* Discs: the Destroyer of the disc database and a degenerate rating whose
\* maximum velocity 15 + 1.6 * speed is 0
Destroyer == [speed |-> 12 * S, glide |-> 5 * S, turn |-> -1 * S, fade |-> 3 * S]
Degenerate == [speed |-> -9375, glide |-> 0, turn |-> 0, fade |-> 0]
Discs == {Destroyer, Degenerate}

\* Throws: a full-power spike into the ground and a soft, slightly nose-up
\* throw on a hyzer line
Spike == [power |-> 100 * S, aimAngle |-> 0, releaseAngle |-> 0, noseAngle |-> -45 * S]
Soft == [power |-> 30 * S, aimAngle |-> 20 * S, releaseAngle |-> -10 * S, noseAngle |-> 5 * S]
Throws == {Spike, Soft}

\* Winds: calm (the default argument) and 5 m/s from the east
Calm == [speed |-> 0, direction |-> 0]
Winds == {Calm, [speed |-> 5 * S, direction |-> 90 * S]}

\* no call of trajectoryToWGS84 or smoothBezierCurve is under way
GeoIdle ==
    /\ localPoints = <<>>
    /\ origin = [lng |-> 0, lat |-> 0, elevation |-> 0]
    /\ bearingDeg = 0
    /\ wgs84 = <<>>
    /\ geoPc = "idle"

CurveIdle ==
    /\ rawPoints = <<>>
    /\ segments = 0
    /\ curve = Returned(<<>>)
    /\ curvePc = "idle"

NoMeasurement ==
    [distanceM |-> 0, distanceFt |-> 0, elevChangeM |-> 0, elevChangeFt |-> 0,
     horizontalM |-> 0, horizontalFt |-> 0, bearingDeg |-> 0]

MeasureIdle ==
    /\ measureA = [lng |-> 0, lat |-> 0, elevation |-> 0]
    /\ measureB = [lng |-> 0, lat |-> 0, elevation |-> 0]
    /\ forward = NoMeasurement
    /\ backward = NoMeasurement
    /\ measurePc = "idle"

\* the locals of an activation of simulateDiscFlight; disc and wind are
\* objects of the caller, which every activation reads in place
Suspended ==
    [throwParams |-> throwParams, getGroundElev |-> getGroundElev, windVec |-> windVec,
     state |-> state, points |-> points, maxHeight |-> maxHeight,
     landingIndex |-> landingIndex, stepCount |-> stepCount, pc |-> pc, result |-> result]

\* an activation that has not been called
NotCalled ==
    [throwParams |-> [power |-> 0, aimAngle |-> 0, releaseAngle |-> 0, noseAngle |-> 0],
     getGroundElev |-> "null", windVec |-> [vx |-> 0, vz |-> 0],
     state |-> createState(0, 0, 0, 0, 0, 0, 0, 0, DoubleZero), points |-> <<>>,
     maxHeight |-> 0, landingIndex |-> -1, stepCount |-> 0, pc |-> "idle",
     result |-> NoResult]

TwoIdle ==
    /\ parked = NotCalled
    /\ given = createState(0, 0, 0, 0, 0, 0, 0, 0, DoubleZero)
    /\ turn = 1

\* MapCanvas before any click, without props
AppIdle ==
    /\ selectedDisc = <<>>
    /\ throwSettings = <<>>
    /\ markers = <<>>
    /\ landingZone = <<>>
    /\ flightData = <<>>
    /\ handler = "idle"

\* no call of rk4Step is looked at
RkIdle ==
    rk = [pc |-> "idle", s |-> NotCalled.state, disc |-> Destroyer,
          wind |-> [vx |-> 0, vz |-> 0], k |-> <<>>, out |-> NotCalled.state]

\* no call of the coefficient functions is looked at
CoefIdle == coef = [pc |-> "idle", disc |-> Destroyer, angleOfAttack |-> 0, cl |-> 0, cd |-> 0]

SideIdle == RkIdle /\ CoefIdle

\* the state of App and of MapCanvas's tee after mounting
UiIdle == mode = "navigate" /\ measurement = <<>> /\ searchOpen = FALSE /\ teePoint = <<>>

\* a call of simulateDiscFlight, by the application or by a test, with
\* arguments from the given sets
CallWith(ds, tps, ws, gs) ==
    /\ pc \in {"idle", "done", "threw"}
    /\ \E d \in ds, tp \in tps, w \in ws, g \in gs : SimInit(d, tp, w, g)

Call == CallWith(Discs, Throws, Winds, GroundFns)

Init == Idle /\ returned = <<>> /\ GeoIdle /\ CurveIdle /\ MeasureIdle /\ TwoIdle /\ AppIdle /\ SideIdle /\ UiIdle

Next ==
    \/ Call /\ UNCHANGED <<returned, libVars>>
    \/ Step /\ UNCHANGED <<returned, libVars>>
    \/ Finish /\ UNCHANGED <<returned, libVars>>

Spec == Init /\ [][Next]_vars

\* Up to MaxCalls calls one after the other, each return recorded with its
\* arguments: the throws of one disc in calm air over the flat plane and
\* the plateau.
MaxCalls == 3
Arguments == <<disc, throwParams, wind, getGroundElev>>

Recall ==
    /\ Len(returned) < MaxCalls
    /\ CallWith({Destroyer}, Throws, {Calm}, {"null", "plateau"})

Record == Finish /\ returned' = Append(returned, <<Arguments, result'>>)

NextCalls ==
    \/ Recall /\ UNCHANGED <<returned, libVars>>
    \/ Step /\ UNCHANGED <<returned, libVars>>
    \/ Record /\ UNCHANGED libVars

SpecCalls == Init /\ [][NextCalls]_vars

\* Straight shots: discs without turn and fade (the Mako3 of the disc
\* database and a faster one), thrown along the aim axis without hyzer, at
\* the application's default settings and as a spike, in still air
Mako3 == [speed |-> 5 * S, glide |-> 5 * S, turn |-> 0, fade |-> 0]
Stable == [speed |-> 9 * S, glide |-> 4 * S, turn |-> 0, fade |-> 0]
DefaultThrow == [power |-> 80 * S, aimAngle |-> 0, releaseAngle |-> 0, noseAngle |-> 12 * S]
StillAir == {Calm, [speed |-> 0, direction |-> 90 * S]}

CallStraight == CallWith({Mako3, Stable}, {DefaultThrow, Spike}, StillAir, {"null", "slope", "deep"})

NextStraight ==
    \/ CallStraight /\ UNCHANGED <<returned, libVars>>
    \/ Step /\ UNCHANGED <<returned, libVars>>
    \/ Finish /\ UNCHANGED <<returned, libVars>>

SpecStraight == Init /\ [][NextStraight]_vars

\* Two activations of simulateDiscFlight whose steps interleave, as two
\* workers or a generator-based port would run them. Both read the same disc
\* and wind objects; the first throws Spike, the second Dive. Every return is recorded with
\* its arguments and with where the other activation stood at that moment
\* ("idle": it had never been called).
MaxRuns == 3
Dive == [power |-> 60 * S, aimAngle |-> -15 * S, releaseAngle |-> 10 * S, noseAngle |-> -20 * S]

\* a faulty rk4Step: it advances the object it was handed, in place
rk4StepInPlace(s, d, w, h) == rk4Step(s, d, w, h)

\* the object handed to rk4Step, after the call: rk4Step assigns to no
\* property of it
rk4StepGiven(s, d, w, h) == s

\* the locals of the activation that continues
Resume(ctx) ==
    /\ throwParams' = ctx.throwParams
    /\ getGroundElev' = ctx.getGroundElev
    /\ windVec' = ctx.windVec
    /\ state' = ctx.state
    /\ points' = ctx.points
    /\ maxHeight' = ctx.maxHeight
    /\ landingIndex' = ctx.landingIndex
    /\ stepCount' = ctx.stepCount
    /\ pc' = ctx.pc
    /\ result' = ctx.result

InitTwo ==
    /\ disc = Destroyer
    /\ throwParams = NotCalled.throwParams
    /\ wind = Calm
    /\ getGroundElev = "null"
    /\ windVec = NotCalled.windVec
    /\ state = NotCalled.state
    /\ points = <<>>
    /\ maxHeight = 0
    /\ landingIndex = -1
    /\ stepCount = 0
    /\ pc = "idle"
    /\ result = NoResult
    /\ returned = <<>> /\ GeoIdle /\ CurveIdle /\ MeasureIdle /\ TwoIdle /\ AppIdle /\ SideIdle /\ UiIdle

Running(p) == IF p \in {"loop", "landed"} THEN 1 ELSE 0

CallTwo ==
    /\ pc \in {"idle", "done", "threw"}
    /\ Len(returned) + Running(parked.pc) < MaxRuns
    /\ SimInit(disc, IF turn = 1 THEN Spike ELSE Dive, wind, "null")
    /\ UNCHANGED <<returned, toolVars, twoVars, appVars, sideVars, uiVars>>

StepTwo ==
    /\ Step
    /\ given' = rk4StepGiven(state, disc, windVec, dt)
    /\ UNCHANGED <<returned, toolVars, appVars, sideVars, uiVars, parked, turn>>

RecordTwo ==
    /\ Finish
    /\ returned' = Append(returned, <<Arguments, result', parked.pc>>)
    /\ UNCHANGED <<toolVars, twoVars, appVars, sideVars, uiVars>>

Switch ==
    /\ parked' = Suspended
    /\ Resume(parked)
    /\ turn' = 3 - turn
    /\ UNCHANGED <<disc, wind, given, returned, toolVars, appVars, sideVars, uiVars>>

NextTwo == CallTwo \/ StepTwo \/ RecordTwo \/ Switch

SpecTwo == InitTwo /\ [][NextTwo]_vars

\* The throw flow of MapCanvas: handleThrowClick. Its call of
\* simulateDiscFlight runs as the steps of the loop; nothing else runs until
\* the handler has finished. The projection and the smoothing it calls are
\* recorded in the variables of those functions: origin is the tee,
\* localPoints the points projected, wgs84 the wgs84Points, rawPoints the
\* array handed to smoothBezierCurve and curve the smoothed path drawn.
FlightPathSegments == 200
ClickPoints == {[lng |-> -71100000, lat |-> 42400000], [lng |-> 8500000, lat |-> -33900000]}
TerrainElevations == {NaN, 35 * S}
SettingsProps == {<<>>, <<Soft>>, <<Dive>>}

\* throwSettings || { power: 80, aimAngle: 0, releaseAngle: 0, noseAngle: 12 }
SettingsOrDefault(ts) == IF ts = <<>> THEN DefaultThrow ELSE ts[1]

\* throwSettings?.aimAngle || 0
Bearing(ts) == IF ts = <<>> THEN 0 ELSE OrZero(ts[1].aimAngle)

\* wgs84Points.map((p) => ({ x: p.lng, y: p.altitude, z: p.lat }))
PathInput(wgs) == [i \in DOMAIN wgs |-> [x |-> wgs[i].lng, y |-> wgs[i].altitude, z |-> wgs[i].lat]]

\* a faulty report: the points of the smoothed path
ReportedSmooth(wgs, smooth) ==
    [i \in DOMAIN smooth.value |->
        [lng |-> smooth.value[i].x, lat |-> smooth.value[i].z, altitude |-> smooth.value[i].y]]

\* the wgs84Points reported and marked, given the projected points and the
\* smoothed path
ReportedPoints(wgs, smooth) == wgs

InitThrow ==
    /\ Idle /\ returned = <<>> /\ GeoIdle /\ CurveIdle /\ MeasureIdle /\ TwoIdle /\ SideIdle
    /\ mode = "throw" /\ measurement = <<>> /\ searchOpen = FALSE /\ teePoint = <<>>
    /\ selectedDisc \in {<<>>, <<Destroyer>>}
    /\ throwSettings \in SettingsProps
    /\ markers = <<>>
    /\ landingZone = <<>>
    /\ flightData = <<>>
    /\ handler = "idle"

\* handleThrowClick up to and into the simulation
ThrowClickAt(lngLats, elevations) ==
    /\ handler \in {"idle", "reported"}
    /\ selectedDisc # <<>>
    /\ teePoint' = <<>>
    /\ \E lngLat \in lngLats, elevation \in elevations :
          /\ origin' = [lng |-> lngLat.lng, lat |-> lngLat.lat, elevation |-> OrZero(elevation)]
          /\ markers' = <<[label |-> "THROW", lng |-> lngLat.lng, lat |-> lngLat.lat]>>
    /\ landingZone' = <<>>
    /\ rawPoints' = <<>> /\ segments' = 0 /\ curve' = Returned(<<>>) /\ curvePc' = "idle"
    /\ SimInit(selectedDisc[1], SettingsOrDefault(throwSettings), Calm, "null")
    /\ handler' = "simulating"
    /\ UNCHANGED <<returned, measureVars, twoVars, sideVars, mode, measurement, searchOpen, selectedDisc, throwSettings, flightData,
                   localPoints, bearingDeg, wgs84, geoPc>>

ThrowClick == ThrowClickAt(ClickPoints, TerrainElevations)

\* handleThrowClick from the return of the simulation on
CompleteThrow ==
    /\ handler = "simulating" /\ pc = "done"
    /\ localPoints' = result.points
    /\ bearingDeg' = Bearing(throwSettings)
    /\ wgs84' = trajectoryToWGS84(localPoints', origin, bearingDeg')
    /\ geoPc' = "returned"
    /\ rawPoints' = PathInput(wgs84')
    /\ segments' = FlightPathSegments
    /\ curve' = smoothBezierCurve(rawPoints', segments')
    /\ curvePc' = "done"
    /\ IF curve'.status = "threw"
       THEN /\ handler' = "threw"
            /\ UNCHANGED <<markers, landingZone, flightData>>
       ELSE /\ markers' = Append(markers,
                   [label |-> "LAND",
                    lng |-> ReportedPoints(wgs84', curve')[Len(ReportedPoints(wgs84', curve'))].lng,
                    lat |-> ReportedPoints(wgs84', curve')[Len(ReportedPoints(wgs84', curve'))].lat])
            /\ landingZone' = <<[lng |-> markers'[2].lng, lat |-> markers'[2].lat]>>
            /\ flightData' = <<[flightResult |-> result, origin |-> origin,
                                landing |-> ReportedPoints(wgs84', curve')[Len(ReportedPoints(wgs84', curve'))],
                                wgs84Points |-> ReportedPoints(wgs84', curve')]>>
            /\ handler' = "reported"
    /\ UNCHANGED <<simVars, returned, measureVars, twoVars, sideVars, uiVars, selectedDisc, throwSettings, origin>>

NextThrow ==
    \/ ThrowClick
    \/ handler = "simulating" /\ Step /\ UNCHANGED <<returned, libVars>>
    \/ handler = "simulating" /\ Finish /\ UNCHANGED <<returned, libVars>>
    \/ CompleteThrow

SpecThrow == InitThrow /\ [][NextThrow]_vars

\* FlightDisplay, "Flight Time": data.points.length * 0.03, and the string
\* shown, (...).toFixed(1), as thousandths of a second
FlightTime(data) == Len(data.points) * 30
ToFixed1(v) == ((v + 50) \div 100) * 100
FlightTimeShown(data) == ToFixed1(FlightTime(data))

\* ------------------------------------------------------------------------
\* App and MapCanvas: modes, keys, the toolbar and map clicks. A handler
\* runs to completion before the next event is taken.

Modes == {"navigate", "measure", "throw", "calibrate"}
Keys == {"n", "m", "t", "c", "k", "/", "escape", "x"}

\* the one place the map is clicked at in throw mode, and its terrain
AppTee == {[lng |-> -71100000, lat |-> 42400000]}
AppTerrain == {35 * S}

\* the places the map is clicked at in measure mode
AppClicks ==
    {[lng |-> -122400000, lat |-> 45000000, elevation |-> 120 * S],
     [lng |-> -122400000 + 900, lat |-> 45000000 - 900, elevation |-> 95500]}

InitApp ==
    /\ Idle /\ returned = <<>> /\ GeoIdle /\ CurveIdle /\ MeasureIdle /\ TwoIdle /\ SideIdle
    /\ UiIdle
    /\ selectedDisc \in {<<>>, <<Destroyer>>}
    /\ throwSettings = <<Dive>>
    /\ markers = <<>>
    /\ landingZone = <<>>
    /\ flightData = <<>>
    /\ handler = "idle"

\* no handler is running
Settled == handler \in {"idle", "reported", "threw"}

\* the mode a key selects
KeyMode(key, m) ==
    CASE key = "n" -> "navigate"
      [] key = "m" -> "measure"
      [] key = "t" -> "throw"
      [] key = "c" -> "calibrate"
      [] key = "escape" -> "navigate"
      [] OTHER -> m

\* handleKey, the target not being an input
handleKey ==
    /\ Settled
    /\ \E key \in Keys, ctrlKey \in BOOLEAN :
          /\ mode' = KeyMode(key, mode)
          /\ searchOpen' = IF key \in {"/", "k"} /\ ctrlKey THEN TRUE
                           ELSE IF key = "escape" THEN FALSE ELSE searchOpen
    /\ UNCHANGED <<simVars, returned, toolVars, twoVars, appVars, sideVars, measurement, teePoint>>

\* if (newMode !== own) set(null)
ClearedOnModeChange(newMode, own, value) == IF newMode # own THEN <<>> ELSE value

\* handleModeChange, from a toolbar button
handleModeChange ==
    /\ Settled
    /\ \E newMode \in Modes :
          /\ mode' = newMode
          /\ measurement' = ClearedOnModeChange(newMode, "measure", measurement)
          /\ flightData' = ClearedOnModeChange(newMode, "throw", flightData)
    /\ UNCHANGED <<simVars, returned, toolVars, twoVars, sideVars, searchOpen, teePoint,
                   selectedDisc, throwSettings, markers, landingZone, handler>>

\* handleReset: clearFlightPath and clearMeasurement (clearMarkers)
handleReset ==
    /\ Settled
    /\ measurement' = <<>>
    /\ flightData' = <<>>
    /\ landingZone' = <<>>
    /\ rawPoints' = <<>> /\ segments' = 0 /\ curve' = Returned(<<>>) /\ curvePc' = "idle"
    /\ markers' = <<>>
    /\ teePoint' = <<>>
    /\ UNCHANGED <<simVars, returned, geoVars, measureVars, twoVars, sideVars, mode, searchOpen,
                   selectedDisc, throwSettings, handler>>

\* handleMeasureClick: the first click sets the tee, the second reports
handleMeasureClick ==
    /\ Settled
    /\ mode = "measure"
    /\ \E point \in AppClicks :
          IF teePoint = <<>>
          THEN /\ teePoint' = <<point>>
               /\ markers' = <<[label |-> "TEE", lng |-> point.lng, lat |-> point.lat]>>
               /\ UNCHANGED measurement
          ELSE /\ markers' = Append(markers,
                                    [label |-> "TARGET", lng |-> point.lng, lat |-> point.lat])
               /\ measurement' = <<measure3DDistance(teePoint[1], point)>>
               /\ teePoint' = <<>>
    /\ UNCHANGED <<simVars, returned, toolVars, twoVars, sideVars, mode, searchOpen,
                   selectedDisc, throwSettings, landingZone, flightData, handler>>

\* handleMapClick
handleMapClick ==
    \/ handleMeasureClick
    \/ mode = "throw" /\ ThrowClickAt(AppTee, AppTerrain)

NextApp ==
    \/ handleKey
    \/ handleModeChange
    \/ handleReset
    \/ handleMapClick
    \/ handler = "simulating" /\ Step /\ UNCHANGED <<returned, libVars>>
    \/ handler = "simulating" /\ Finish /\ UNCHANGED <<returned, libVars>>
    \/ CompleteThrow

SpecApp == InitApp /\ [][NextApp]_vars

\* liftCoefficient and dragCoefficient applied to discs inside and outside
\* the rating ranges and to angles of attack in degrees, NaN and Infinity
\* as they arise in a diverging flight included
CoefDiscs ==
    [speed : {1 * S, 7 * S, 12 * S, 15 * S, 25 * S, -9375}, glide : {0, 5 * S, 7 * S},
     turn : {-1 * S}, fade : {3 * S}]

CoefAngles ==
    {-90 * S, -20 * S, -5 * S, -2 * S, -1875, -300, 0, 200, 3 * S, 12 * S, 90 * S, NaN, PInf}

InitCoef ==
    /\ Idle /\ returned = <<>> /\ GeoIdle /\ CurveIdle /\ MeasureIdle /\ TwoIdle /\ AppIdle
    /\ RkIdle /\ UiIdle
    /\ coef \in [pc : {"ready"}, disc : CoefDiscs, angleOfAttack : CoefAngles, cl : {0}, cd : {0}]

Coefficients ==
    /\ coef.pc = "ready"
    /\ coef' = [coef EXCEPT !.pc = "done",
                            !.cl = liftCoefficient(coef.disc, coef.angleOfAttack),
                            !.cd = dragCoefficient(coef.disc, coef.angleOfAttack)]
    /\ UNCHANGED <<simVars, returned, toolVars, twoVars, appVars, rk, uiVars>>

SpecCoef == InitCoef /\ [][Coefficients]_vars

\* calls that start slower than 0.5 m/s, so that whole steps are free fall,
\* next to ordinary ones
Drop == [power |-> 1 * S, aimAngle |-> 0, releaseAngle |-> 0, noseAngle |-> 0]

CallSpin == CallWith({Destroyer, Mako3, Degenerate}, {Drop, Soft, Spike}, {Calm}, {"null"})

NextSpin ==
    \/ CallSpin /\ UNCHANGED <<returned, libVars>>
    \/ Step /\ UNCHANGED <<returned, libVars>>
    \/ Finish /\ UNCHANGED <<returned, libVars>>

SpecSpin == Init /\ [][NextSpin]_vars

\* calls with winds from every side
WindRose ==
    [speed : {0, 5 * S, 10 * S},
     direction : {0, 45 * S, 90 * S, 180 * S, 270 * S, -90 * S}]

CallWind == CallWith({Destroyer}, {Spike, Soft}, WindRose, {"null"})

NextWind ==
    \/ CallWind /\ UNCHANGED <<returned, libVars>>
    \/ Step /\ UNCHANGED <<returned, libVars>>
    \/ Finish /\ UNCHANGED <<returned, libVars>>

SpecWind == Init /\ [][NextWind]_vars

\* rk4Step applied once to a state at rest, slow, or fast relative to the
\* air, in still air and in a wind of 5 m/s along x
RkStates ==
    [x : {1 * S}, y : {2 * S}, z : {3 * S},
     vx : {0, 200, 5200}, vy : {0, -480, -300, 4 * S}, vz : {0, 300, 12 * S},
     roll : {0, 10 * S}, spin : {1520 * S}, t : {DoubleDt}]

InitRk ==
    /\ Idle /\ returned = <<>> /\ GeoIdle /\ CurveIdle /\ MeasureIdle /\ TwoIdle /\ AppIdle
    /\ CoefIdle /\ UiIdle
    /\ rk \in [pc : {"ready"}, s : RkStates, disc : {Destroyer, Mako3},
                wind : {[vx |-> 0, vz |-> 0], [vx |-> 5 * S, vz |-> 0]},
                k : {<<>>}, out : {NotCalled.state}]

Rk4Call ==
    /\ rk.pc = "ready"
    /\ rk' = [rk EXCEPT !.pc = "done",
                        !.k = rk4Slopes(rk.s, rk.disc, rk.wind, dt, <<>>),
                        !.out = rk4Step(rk.s, rk.disc, rk.wind, dt)]
    /\ UNCHANGED <<simVars, returned, toolVars, twoVars, appVars, coef, uiVars>>

SpecRk == InitRk /\ [][Rk4Call]_vars

\* trajectoryToWGS84 applied to one or two local points: the origin, a
\* point straight ahead and a point off the axis, from tees on the equator,
\* in the northern and in the southern hemisphere, at and above sea level
MaxAhead == 100
LocalPoints ==
    {[x |-> 0, y |-> 0, z |-> 0], [x |-> 0, y |-> 0, z |-> MaxAhead * S],
     [x |-> 30 * S, y |-> 5 * S, z |-> 40 * S]}
Origins ==
    [lng : {0, -122400000, 151200000}, lat : {0, 45000000, -33900000},
     elevation : {0, 120 * S}]
Bearings == {0, 45 * S, 90 * S, 180 * S, 270 * S, -90 * S}

InitGeo ==
    /\ Idle /\ returned = <<>> /\ CurveIdle /\ MeasureIdle /\ TwoIdle /\ AppIdle /\ SideIdle /\ UiIdle
    /\ localPoints \in {<<p>> : p \in LocalPoints} \cup {<<p, q>> : p, q \in LocalPoints}
    /\ origin \in Origins
    /\ bearingDeg \in Bearings
    /\ wgs84 = <<>>
    /\ geoPc = "ready"

Project ==
    /\ geoPc = "ready"
    /\ wgs84' = trajectoryToWGS84(localPoints, origin, bearingDeg)
    /\ geoPc' = "returned"
    /\ UNCHANGED <<simVars, returned, curveVars, measureVars, twoVars, appVars, sideVars, uiVars, localPoints, origin, bearingDeg>>

SpecGeo == InitGeo /\ [][Project]_vars

\* smoothBezierCurve applied to up to three points and up to MaxSegments
\* segments
MaxSegments == 5
RawPoints ==
    {[x |-> 0, y |-> 2 * S, z |-> 0], [x |-> 1 * S, y |-> 3 * S, z |-> 4 * S],
     [x |-> 2 * S, y |-> 2500, z |-> 9 * S]}

InitCurve ==
    /\ Idle /\ returned = <<>> /\ GeoIdle /\ MeasureIdle /\ TwoIdle /\ AppIdle /\ SideIdle /\ UiIdle
    /\ rawPoints \in {<<>>} \cup {<<p>> : p \in RawPoints}
                     \cup {<<p, q>> : p, q \in RawPoints}
                     \cup {<<p, q, r>> : p, q, r \in RawPoints}
    /\ segments \in 0 .. MaxSegments
    /\ curve = Returned(<<>>)
    /\ curvePc = "ready"

Smooth ==
    /\ curvePc = "ready"
    /\ curve' = smoothBezierCurve(rawPoints, segments)
    /\ curvePc' = "done"
    /\ UNCHANGED <<simVars, returned, geoVars, measureVars, twoVars, appVars, sideVars, uiVars, rawPoints, segments>>

SpecCurve == InitCurve /\ [][Smooth]_vars

\* measure3DDistance applied to two points of one course, in both orders;
\* the points lie within MaxSpread thousandths of a degree of the tee
MaxSpread == 2
MeasurePoints ==
    [lng : {-122400000, -122400000 + 900, -122400000 - MaxSpread * S},
     lat : {45000000, 45000000 - 900, 45000000 + MaxSpread * S},
     elevation : {NaN, 120 * S, 95500}]

InitMeasure ==
    /\ Idle /\ returned = <<>> /\ GeoIdle /\ CurveIdle /\ TwoIdle /\ AppIdle /\ SideIdle /\ UiIdle
    /\ measureA \in MeasurePoints
    /\ measureB \in MeasurePoints
    /\ forward = NoMeasurement
    /\ backward = NoMeasurement
    /\ measurePc = "ready"

Measure ==
    /\ measurePc = "ready"
    /\ forward' = measure3DDistance(measureA, measureB)
    /\ measurePc' = "forward"
    /\ UNCHANGED <<simVars, returned, geoVars, curveVars, twoVars, appVars, sideVars, uiVars, measureA, measureB, backward>>

MeasureBack ==
    /\ measurePc = "forward"
    /\ backward' = measure3DDistance(measureB, measureA)
    /\ measurePc' = "both"
    /\ UNCHANGED <<simVars, returned, geoVars, curveVars, twoVars, appVars, sideVars, uiVars, measureA, measureB, forward>>

SpecMeasure == InitMeasure /\ [][Measure \/ MeasureBack]_vars

\* ------------------------------------------------------------------------
\* Properties

\* the ground elevation queried at the current state
GroundAtState == Ground(getGroundElev, state.x, state.z)

\* the run was ended by a ground contact: the loop is left only by the break
\* of the landing test or with that test false
Landed == pc \in {"landed", "done"} /\ Lands(state, GroundAtState)

\* the run ended without a ground contact
TimedOut == pc = "done" /\ ~Lands(state, GroundAtState)

ReleasePoint == [x |-> 0, y |-> 2 * S, z |-> 0]

\* C1: in every call, for every disc, throw, wind and ground function, the
\* points are never empty and the first one is the release point (0, 2, 0),
\* in the loop and in the returned result.
C1_ReleasePoint ==
    /\ pc \in {"loop", "landed", "done"} => Len(points) >= 1 /\ points[1] = ReleasePoint
    /\ pc = "done" => Len(result.points) >= 1 /\ result.points[1] = ReleasePoint

C1_Witness == pc = "done" /\ getGroundElev = "slope" /\ Len(result.points) > 1

\* C2: the loop performs at most 1200 steps and simulated time never exceeds
\* 12 s.
C2_AtMost1200Steps == stepCount <= 1200 /\ ~DGt(state.t, maxTime)

\* C3: when a ground contact ends the run, one landing point has been
\* appended after the samples, as the last point; landingIndex is its index;
\* its y is the ground elevation queried at the terminating state; the
\* result carries both; and no step or sample follows until the next call.
C3_LandingPoint ==
    /\ [](Landed =>
            /\ Len(points) = 2 + (stepCount - 1) \div sampleEvery
            /\ landingIndex = Len(points) - 1
            /\ points[Len(points)].y = GroundAtState
            /\ (getGroundElev = "null" => points[Len(points)].y = 0)
            /\ (pc = "done" => result.points = points /\ result.landingIndex = landingIndex))
    /\ [][Landed => \/ stepCount' = stepCount /\ points' = points /\ state' = state
                    \/ pc' = "loop" /\ stepCount' = 0]_vars

C3_Witness == Landed /\ pc = "done" /\ getGroundElev = "slope" /\ stepCount > 30

\* C4: a run that ends without ground contact returns landingIndex as the
\* index of the last retained sample, and that sample is the state after
\* the final integration step.
C4_LastSampleIsFinalState ==
    TimedOut =>
        /\ result.landingIndex = Len(result.points) - 1
        /\ result.points[Len(result.points)] = Point(state)

C6_NeverFails ==
    /\ pc # "threw"
    /\ pc = "done" =>
          /\ Len(result.points) >= 1
          /\ result.landingIndex \in 0 .. Len(result.points) - 1

C6_Witness ==
    /\ pc = "done" /\ disc = Degenerate
    /\ IsNaN(result.totalDistance) /\ IsNaN(result.points[result.landingIndex + 1].y)

\* C7: no landing is recorded before step 30, the first step whose
\* post-step time is past the 0.3 s guard, even when the disc is at or below
\* the ground; and every step from step 30 on whose post-step height is at
\* or below the queried ground ends the run as a landing.
C7_LandingGuard ==
    /\ [](pc # "idle" /\ stepCount < 30 => pc = "loop" /\ landingIndex = -1)
    /\ [][(/\ pc = "loop"
           /\ stepCount' = stepCount + 1
           /\ stepCount' >= 30
           /\ FLe(state'.y, Ground(getGroundElev, state'.x, state'.z)))
          => pc' = "landed" /\ landingIndex' = Len(points') - 1]_vars

C7_Witness ==
    /\ pc = "landed" /\ stepCount = 30 /\ getGroundElev = "plateau"
    /\ FLe(points[2].y, 3 * S)

\* the local origin and a point straight ahead
LocalOrigin == [x |-> 0, y |-> 0, z |-> 0]
StraightAhead == [x |-> 0, y |-> 0, z |-> MaxAhead * S]

\* C8: the local origin is projected to the supplied origin's longitude,
\* latitude and elevation, for every bearing.
C8_OriginIdentity ==
    geoPc = "returned" =>
        \A i \in DOMAIN localPoints :
            localPoints[i] = LocalOrigin =>
                wgs84[i] = [lng |-> origin.lng, lat |-> origin.lat,
                            altitude |-> origin.elevation]

C8_Witness ==
    /\ geoPc = "returned" /\ Len(localPoints) = 2 /\ localPoints[2] = LocalOrigin
    /\ bearingDeg = 45 * S /\ origin.elevation = 120 * S /\ origin.lat = -33900000

\* C9: a point straight ahead is placed at compass bearing bearingDeg from
\* the origin: north for 0, east (a larger longitude) for 90, south for 180,
\* west for 270.
C9_ClockwiseFromNorth ==
    geoPc = "returned" /\ localPoints[1] = StraightAhead =>
        /\ bearingDeg = 0 => wgs84[1].lat > origin.lat /\ wgs84[1].lng = origin.lng
        /\ bearingDeg = 90 * S => wgs84[1].lng > origin.lng /\ wgs84[1].lat = origin.lat
        /\ bearingDeg = 180 * S => wgs84[1].lat < origin.lat /\ wgs84[1].lng = origin.lng
        /\ bearingDeg = 270 * S => wgs84[1].lng < origin.lng /\ wgs84[1].lat = origin.lat

\* C10: with two or more points the call returns exactly segments points,
\* for every segments including 0 and 1; with fewer it returns its input.
C10_SegmentsPoints ==
    curvePc = "done" =>
        IF Len(rawPoints) >= 2
        THEN curve.status = "returned" /\ Len(curve.value) = segments
        ELSE curve = Returned(rawPoints)

\* C11: measure3DDistance is symmetric in distance and antisymmetric in
\* elevation change: measuring from b to a gives the same distanceM and the
\* opposite elevChangeM as measuring from a to b, a missing elevation
\* counting as 0.
C11_MeasureSymmetry ==
    measurePc = "both" =>
        /\ IsFin(forward.distanceM) /\ IsFin(forward.elevChangeM)
        /\ forward.distanceM = backward.distanceM
        /\ forward.elevChangeM = FNeg(backward.elevChangeM)
        /\ (IsNaN(measureA.elevation) => forward.elevChangeM = OrZero(measureB.elevation))

C11_Witness ==
    /\ measurePc = "both"
    /\ IsNaN(measureA.elevation) /\ measureB.elevation = 95500
    /\ measureA.lng # measureB.lng /\ measureA.lat # measureB.lat
    /\ forward.distanceM > forward.horizontalM /\ forward.horizontalM > 100 * S

\* C12: a disc with turn = 0 and fade = 0 thrown with aimAngle = 0 and
\* releaseAngle = 0 in still air keeps x velocity, roll and x at 0 at every
\* integration step, so every point kept and returned has x = 0.
C12_StraightShot ==
    /\ pc \in {"loop", "landed", "done"} =>
          /\ state.vx = 0 /\ state.roll = 0 /\ state.x = 0
          /\ \A i \in DOMAIN points : points[i].x = 0
    /\ pc = "done" => \A i \in DOMAIN result.points : result.points[i].x = 0

LastSample == points[Len(points) - 1]
LandingFraction == t_frac(LastSample, state, GroundAtState)

\* a lies between b and c
Between(a, b, c) == IsFin(a) /\ ((b <= a /\ a <= c) \/ (c <= a /\ a <= b))

\* during the loop and after a timeout the points are the release point and
\* the states after steps 3, 6, 9, ...
EveryThirdStep ==
    pc = "loop" \/ TimedOut =>
        /\ Len(points) = 1 + stepCount \div sampleEvery
        /\ (stepCount % sampleEvery = 0 => points[Len(points)] = Point(state))

\* C14: apart from the release point and the landing point, point i is the
\* state after 3 * i steps and no other step is retained; so time does not
\* decrease along the points, the landing point's time lying between the
\* last retained sample (fraction 0) and the terminating step (fraction 1).
C14_SamplesInTimeOrder ==
    /\ EveryThirdStep
    /\ Landed =>
          /\ Len(points) = 2 + (stepCount - 1) \div sampleEvery
          /\ Between(LandingFraction, 0, 1 * S)

\* C16: whenever a landing is recorded, the interpolation fraction is
\* defined and lies in [0, 1], and the landing point's x and z lie between
\* those of the last retained sample and of the terminating step.
C16_LandingInterpolated ==
    Landed =>
        /\ IsFin(LandingFraction) /\ 0 <= LandingFraction /\ LandingFraction <= 1 * S
        /\ Between(points[Len(points)].x, LastSample.x, state.x)
        /\ Between(points[Len(points)].z, LastSample.z, state.z)

\* C15: in the throw flow the landing point, the landing marker, the
\* landing zone and the report to onFlightComplete come from the raw
\* simulation points and their projection, never from the smoothed path,
\* which only the drawn flight path carries.
C15_SmoothForRenderingOnly ==
    handler = "reported" =>
        /\ localPoints = result.points
        /\ flightData[1].flightResult = result
        /\ flightData[1].wgs84Points = wgs84
        /\ flightData[1].landing = wgs84[Len(wgs84)]
        /\ markers[2] = [label |-> "LAND", lng |-> wgs84[Len(wgs84)].lng,
                         lat |-> wgs84[Len(wgs84)].lat]
        /\ landingZone = <<[lng |-> wgs84[Len(wgs84)].lng, lat |-> wgs84[Len(wgs84)].lat]>>
        /\ curve = smoothBezierCurve(PathInput(wgs84), FlightPathSegments)

C15_Witness ==
    /\ handler = "reported" /\ throwSettings = <<Soft>>
    /\ curve.status = "returned" /\ Len(curve.value) = FlightPathSegments
    /\ Len(wgs84) > 10 /\ Len(wgs84) # Len(curve.value)
    /\ \E i \in DOMAIN wgs84 : PathInput(wgs84)[i] # curve.value[i]

\* the compass bearing of the projected point p from the tee
BearingFromTee(p) ==
    measure3DDistance(origin, [lng |-> p.lng, lat |-> p.lat, elevation |-> p.altitude]).bearingDeg
MetersFromTee(p) ==
    measure3DDistance(origin, [lng |-> p.lng, lat |-> p.lat, elevation |-> p.altitude]).horizontalM

\* C17: in the throw flow the aim angle is applied once: the projected path
\* leaves the tee at compass bearing aimAngle, to within 10 degrees over its
\* first metres (from 2 m to 8 m from the tee).
C17_AimAppliedOnce ==
    handler = "reported" /\ throwSettings # <<>> =>
        \A i \in DOMAIN wgs84 :
            FLe(2 * S, MetersFromTee(wgs84[i])) /\ FLe(MetersFromTee(wgs84[i]), 8 * S) =>
                FLe(FAbs(FSub(BearingFromTee(wgs84[i]), throwSettings[1].aimAngle)), 10 * S)

\* the speed relative to the air at the i-th stage of the call in rk
RkStage(i) == StageState(rk.s, SubSeq(rk.k, 1, i - 1), dt)
RkRelSpeed(i) ==
    Norm(FSub(RkStage(i).vx, OrZero(rk.wind.vx)), RkStage(i).vy,
         FSub(RkStage(i).vz, OrZero(rk.wind.vz)))

\* C18: at each of the four stages of a step, a speed relative to the wind
\* below 0.5 m/s gives pure free fall: vertical acceleration -g and zero
\* horizontal acceleration, roll rate and spin rate.
C18_FreeFallBelowHalf ==
    rk.pc = "done" =>
        \A i \in 1 .. 4 :
            FLt(RkRelSpeed(i), 500) =>
                rk.k[i] = [dvx |-> 0, dvy |-> -GRAVITY, dvz |-> 0, droll |-> 0, dspin |-> 0]

C18_Witness ==
    /\ rk.pc = "done" /\ rk.wind.vx = 5 * S /\ rk.s.vx = 5200
    /\ FLt(RkRelSpeed(1), 500) /\ rk.k[1].dspin = 0
    /\ ~FLt(RkRelSpeed(2), 500) /\ rk.k[2].dspin # 0

\* C19: a step advances x, y, z by the pre-step velocity times dt, time by
\* dt, and velocity, roll and spin by (k1 + 2*k2 + 2*k3 + k4) / 6 * dt; the
\* stage states keep the pre-step position and time.
C19_EulerPositionRk4Velocity ==
    rk.pc = "done" =>
        /\ rk.out.x = FAdd(rk.s.x, FMul(rk.s.vx, dt.m))
        /\ rk.out.y = FAdd(rk.s.y, FMul(rk.s.vy, dt.m))
        /\ rk.out.z = FAdd(rk.s.z, FMul(rk.s.vz, dt.m))
        /\ rk.out.t = DAdd(rk.s.t, dt.d)
        /\ rk.out.vx = FAdd(rk.s.vx, Weighted(rk.k[1].dvx, rk.k[2].dvx, rk.k[3].dvx, rk.k[4].dvx, dt.m))
        /\ rk.out.vy = FAdd(rk.s.vy, Weighted(rk.k[1].dvy, rk.k[2].dvy, rk.k[3].dvy, rk.k[4].dvy, dt.m))
        /\ rk.out.vz = FAdd(rk.s.vz, Weighted(rk.k[1].dvz, rk.k[2].dvz, rk.k[3].dvz, rk.k[4].dvz, dt.m))
        /\ rk.out.roll = FAdd(rk.s.roll, Weighted(rk.k[1].droll, rk.k[2].droll, rk.k[3].droll, rk.k[4].droll, dt.m))
        /\ rk.out.spin = FAdd(rk.s.spin, Weighted(rk.k[1].dspin, rk.k[2].dspin, rk.k[3].dspin, rk.k[4].dspin, dt.m))
        /\ \A i \in 1 .. 4 :
              /\ RkStage(i).x = rk.s.x /\ RkStage(i).y = rk.s.y /\ RkStage(i).z = rk.s.z
              /\ RkStage(i).t = rk.s.t

C19_Witness ==
    /\ rk.pc = "done" /\ rk.s.vz = 12 * S /\ rk.s.vy = 4 * S /\ rk.s.roll = 10 * S
    /\ rk.out.z = 3 * S + 120 /\ rk.out.vz # rk.s.vz /\ rk.out.roll # rk.s.roll
    /\ rk.k[1] # rk.k[2] /\ rk.k[3] # rk.k[4]
    /\ RkStage(2).vz # rk.s.vz /\ RkStage(4).vz # RkStage(3).vz

\* C20: at the instant of release with zero wind, speedFraction is 1 and
\* fadeFraction is 0 (to within 0.01), for every power setting of the throw.
C20_FullSpeedAtRelease ==
    (pc = "loop" /\ stepCount = 0 /\ windVec = [vx |-> 0, vz |-> 0] /\ IsFin(disc.speed)) =>
        /\ FLe(FAbs(FSub(speedFraction(state, disc, windVec), 1 * S)), 10)
        /\ FLe(fadeFraction(state, disc, windVec), 10)

\* C21: the reported maxHeight is at least 2 and at least the y of every
\* returned point, the landing point included, for every ground function.
C21_MaxHeightIsApex ==
    pc = "done" =>
        /\ FLe(2 * S, result.maxHeight)
        /\ \A i \in DOMAIN result.points : FLe(result.points[i].y, result.maxHeight)

\* C22: no returned point lies below the ground elevation at its own x, z
\* (0 on the default flat plane), for every throw.
C22_NeverBelowGround ==
    pc = "done" =>
        \A i \in DOMAIN result.points :
            FLe(Ground(getGroundElev, result.points[i].x, result.points[i].z),
                result.points[i].y)

\* C23: in every result landingIndex is points.length - 1; the LAND marker
\* and the landing zone of MapCanvas are at the projection of the point that
\* landingIndex designates, and totalDistance is the horizontal distance of
\* that point from the release origin (x = 0, z = 0).
C23_LandingIndexIsLast ==
    /\ pc = "done" => result.landingIndex = Len(result.points) - 1
    /\ handler = "reported" =>
          /\ flightData[1].flightResult = result
          /\ result.landingIndex + 1 \in DOMAIN flightData[1].wgs84Points
          /\ flightData[1].landing = flightData[1].wgs84Points[result.landingIndex + 1]
          /\ flightData[1].landing =
                trajectoryToWGS84(<<result.points[result.landingIndex + 1]>>,
                                  origin, bearingDeg)[1]
          /\ markers[2] = [label |-> "LAND", lng |-> flightData[1].landing.lng,
                           lat |-> flightData[1].landing.lat]
          /\ landingZone = <<[lng |-> flightData[1].landing.lng,
                              lat |-> flightData[1].landing.lat]>>
          /\ result.totalDistance =
                FSqrt(FAdd(FMul(result.points[result.landingIndex + 1].x,
                                result.points[result.landingIndex + 1].x),
                           FMul(result.points[result.landingIndex + 1].z,
                                result.points[result.landingIndex + 1].z)))

C23_Witness ==
    /\ handler = "reported" /\ Landed
    /\ result.landingIndex > 1 /\ FGt(result.totalDistance, 1 * S)
    /\ flightData[1].landing.lat # origin.lat

\* C24: the wind direction is where the wind blows from, so the air moves
\* at the wind speed toward direction + 180 (from 0: vx = 0, vz = -speed, a
\* headwind for aimAngle 0); the wind has no vertical component and leaves
\* the vertical relative velocity equal to the disc's own.
C24_WindBlowsFrom ==
    pc \in {"loop", "landed", "done"} =>
        /\ DOMAIN windVec = {"vx", "vz"}
        /\ windVec.vx = FMul(wind.speed, SinDeg(wind.direction + 180 * S))
        /\ windVec.vz = FMul(wind.speed, CosDeg(wind.direction + 180 * S))
        /\ wind.direction = 0 => windVec = [vx |-> 0, vz |-> -wind.speed]
        /\ wind.direction = 90 * S => windVec = [vx |-> -wind.speed, vz |-> 0]
        /\ wind.direction = 180 * S => windVec = [vx |-> 0, vz |-> wind.speed]
        /\ wind.direction \in {270 * S, -90 * S} => windVec = [vx |-> wind.speed, vz |-> 0]
        /\ wind.direction = 45 * S =>
              /\ windVec.vx = windVec.vz /\ windVec.vx <= 0
              /\ Abs(Norm(windVec.vx, 0, windVec.vz) - wind.speed) <= 50
        /\ RelativeVelocity(state, windVec).vry = state.vy
        /\ (wind.direction = 0 /\ throwParams.aimAngle = 0 /\ stepCount = 0) =>
              RelativeVelocity(state, windVec).vrz = state.vz + wind.speed

C24_Witness ==
    /\ pc = "loop" /\ stepCount > 3
    /\ wind = [speed |-> 5 * S, direction |-> 0] /\ throwParams.aimAngle = 0
    /\ windVec = [vx |-> 0, vz |-> -5 * S]
    /\ state.vy # 0 /\ IsFin(state.vy)
    /\ FGt(RelativeVelocity(state, windVec).vrz, state.vz)

\* C25: liftCoefficient is never negative and dragCoefficient never below
\* 0.02; above those floors they are (0.15 + 0.035*glide + 0.08*AoA) *
\* (1 + 0.02*(speed - 7)) and 0.08 - 0.003*speed + 0.04*|AoA|.
C25_CoefficientFloors ==
    coef.pc = "done" =>
        /\ ~FLt(coef.cl, 0)
        /\ ~FLt(coef.cd, 20)
        /\ IsFin(coef.angleOfAttack) => FLe(0, coef.cl) /\ FLe(20, coef.cd)
        /\ FGt(coef.cl, 0) =>
              coef.cl = FMul(FAdd(FAdd(150, FMul(coef.disc.glide, 35)),
                                  FMul(coef.angleOfAttack, 80)),
                             FAdd(1 * S, FMul(FSub(coef.disc.speed, 7 * S), 20)))
        /\ FGt(coef.cd, 20) =>
              coef.cd = FAdd(FSub(80, FMul(coef.disc.speed, 3)),
                             FMul(FAbs(coef.angleOfAttack), 40))

C25_Witness ==
    /\ coef.pc = "done" /\ coef.disc.glide = 5 * S /\ coef.disc.speed = 12 * S
    /\ coef.angleOfAttack = -5 * S
    /\ coef.cl = 0 /\ coef.cd = 244

\* every stage of the step taken from the current state is below 0.5 m/s
AllStagesFreeFall ==
    \A i \in 1 .. 4 :
        FLt(Norm(RelativeVelocity(StageState(state, SubSeq(rk4Slopes(state, disc, windVec, dt, <<>>), 1, i - 1), dt), windVec).vrx,
                 RelativeVelocity(StageState(state, SubSeq(rk4Slopes(state, disc, windVec, dt, <<>>), 1, i - 1), dt), windVec).vry,
                 RelativeVelocity(StageState(state, SubSeq(rk4Slopes(state, disc, windVec, dt, <<>>), 1, i - 1), dt), windVec).vrz),
            500)

\* C26: in a run started with positive spin 800 + 60*speed, the spin stays
\* positive, no step increases it, and a step whose four stages are all free
\* fall leaves it unchanged.
C26_SpinDecays ==
    /\ [](pc = "loop" /\ stepCount = 0 =>
            state.spin = 800 * S + 60 * disc.speed /\ state.spin > 0)
    /\ [][(pc = "loop" /\ stepCount' = stepCount + 1) =>
            /\ FLe(state'.spin, state.spin)
            /\ FGt(state'.spin, 0)
            /\ AllStagesFreeFall => state'.spin = state.spin]_vars

C26_Witness ==
    /\ pc = "loop" /\ throwParams = Drop /\ disc = Destroyer
    /\ stepCount = 5
    /\ ~AllStagesFreeFall
    /\ FLt(state.spin, 1520 * S) /\ FGt(state.spin, 1510 * S)

\* C27: with at least 2 raw points and at least 2 segments, every iteration
\* of smoothBezierCurve reads raw points at indices 0 .. length - 1 only, the
\* first output point is the first raw point and the last output point is
\* the last raw point.
C27_CurveEndsAtRawEnds ==
    (curvePc = "done" /\ Len(rawPoints) >= 2 /\ segments >= 2) =>
        /\ curve.status = "returned"
        /\ Len(curve.value) = segments
        /\ \A i \in 0 .. segments - 1 :
              /\ Defined(rawPoints, CurveIndices(rawPoints, segments, CurveIdx(rawPoints, segments, i)).i0)
              /\ Defined(rawPoints, CurveIndices(rawPoints, segments, CurveIdx(rawPoints, segments, i)).i1)
              /\ Defined(rawPoints, CurveIndices(rawPoints, segments, CurveIdx(rawPoints, segments, i)).i2)
              /\ Defined(rawPoints, CurveIndices(rawPoints, segments, CurveIdx(rawPoints, segments, i)).i3)
        /\ curve.value[1] = rawPoints[1]
        /\ curve.value[segments] = rawPoints[Len(rawPoints)]

C27_Witness ==
    /\ curvePc = "done" /\ Len(rawPoints) = 3 /\ segments = 4
    /\ rawPoints[1] # rawPoints[3] /\ rawPoints[2] # rawPoints[3]
    /\ curve.status = "returned"
    /\ curve.value[4] = rawPoints[3]
    /\ \A j \in 1 .. 3 : curve.value[2] # rawPoints[j] /\ curve.value[3] # rawPoints[j]

\* C28: after any sequence of mode changes, flight data is stored only in
\* throw mode and a measurement only in measure mode: leaving a mode clears
\* that mode's result.
C28_LeavingModeClearsResult ==
    /\ flightData # <<>> => mode = "throw"
    /\ measurement # <<>> => mode = "measure"

\* C29: a tee point pending from a first click does not survive leaving
\* measure mode, so a reported measurement never spans a mode change.
C29_TeeClearedOnLeaving == teePoint # <<>> => mode = "measure"

\* the simulated time at which the flight ended, in thousandths of a second:
\* stepCount additions of dt
EndTime == stepCount * dt.m

\* C30: the flight time shown, points.length * 0.03 s, is within one sample
\* period (0.03 s) of the simulated time at which the flight ended and never
\* exceeds the 12 s ceiling.
C30_FlightTimeIsSimulatedTime ==
    pc = "done" =>
        /\ Abs(FlightTime(result) - EndTime) <= sampleEvery * dt.m
        /\ FlightTime(result) <= 12 * S

=============================================================================
